---- MODULE Spec2Model ----
(***************************************************************************)
(* A model of the minimal version-control engine of src/code.py: the       *)
(* content-addressed object store, the staging index, the commit log and   *)
(* checkout, over a small file system.                                     *)
(*                                                                         *)
(* The file system holds the user's working-tree files and the two         *)
(* metadata files of the repository (.vcs/index.json, .vcs/commits.json).  *)
(* add and checkout take any path, so the metadata files can be named as   *)
(* arguments just like working-tree files; the user's own edits (Write)    *)
(* touch working-tree files only.                                          *)
(***************************************************************************)
EXTENDS Integers, Sequences, FiniteSets, TLC

\* ---- bounds ----
\* A run makes at most quota.commits successful commits and quota.adds
\* successful adds: Spec explores the short runs, SpecDeep the longer ones.
MaxCommits  == 1
MaxAdds     == 2
DeepCommits == 2
DeepAdds    == 3
\* SpecAddSteps and SpecSteps run two invocations step by step, interleaved
StepCommits == 1
StepAdds    == 2

\* ---- paths (src/code.py:8-11) ----
VCS_DIR      == ".vcs"
INDEX_FILE   == ".vcs/index.json"
COMMITS_FILE == ".vcs/commits.json"

UserPaths == {"a.txt", "b.txt"}
MetaPaths == {INDEX_FILE, COMMITS_FILE}
FilePaths == UserPaths \cup MetaPaths
ArgPaths  == FilePaths \cup {VCS_DIR}
Bytes     == {"hello", "world"}
Messages  == {"first"}
Times     == {1}
CommitNumbers == -1 .. DeepCommits
Procs     == {"p1", "p2"}
\* the arguments of the stepwise add: the working-tree files and the index
\* file, which its own steps load and save
StepPaths == UserPaths \cup {INDEX_FILE}

\* ---- file contents ----
\* A file holds raw bytes (a user file), a serialized index, a serialized
\* commit list, or does not exist.  All four share one record shape.
Absent     == [kind |-> "absent",  bytes |-> "", idx |-> <<>>, log |-> <<>>]
RawFile(b) == [kind |-> "bytes",   bytes |-> b,  idx |-> <<>>, log |-> <<>>]

\* json.dump / json.load of the index (a str -> str dict) and of the commit
\* list: the document carries exactly the mapping or the list.
dump_index(index)     == [kind |-> "index",   bytes |-> "", idx |-> index, log |-> <<>>]
dump_commits(commits) == [kind |-> "commits", bytes |-> "", idx |-> <<>>,  log |-> commits]

\* SHA-1 of a content, as an opaque digest: equal contents give equal
\* digests, different contents different digests (no collisions).
hash_content(content) == [sha1 |-> content]

VARIABLES
  vcs,       \* the .vcs directory (with .vcs/objects) exists
  objects,   \* .vcs/objects: digest -> blob content
  fs,        \* FilePaths -> content or Absent
  last,      \* the last event: command (or user edit) and message printed
  staged,    \* history: path -> what its adds since the last successful commit read
  made,      \* history: record number -> staged of the commit that produced it
  ncommits,  \* history: number of successful commits so far
  nadds,     \* history: number of successful adds so far
  quota,     \* the bounds of this run: [adds, commits]
  inflight   \* Procs -> the position and the local variables of an invocation
             \* of add or commit that runs step by step (SpecSteps)

vars == <<vcs, objects, fs, last, staged, made, ncommits, nadds, quota, inflight>>

\* the last event: the command run (or a user edit) and the message printed
Cmd(c, o) == [cmd |-> c, out |-> o]

exists(filename) == IF filename = VCS_DIR THEN vcs ELSE fs[filename] # Absent

load_commits == IF fs[COMMITS_FILE] = Absent THEN <<>> ELSE fs[COMMITS_FILE].log
load_index   == IF fs[INDEX_FILE] = Absent THEN <<>> ELSE fs[INDEX_FILE].idx

\* the file system after save_index(index)
save_index(f, index) == [f EXCEPT ![INDEX_FILE] = dump_index(index)]

\* an invocation that has not started, or has returned
Idle ==
  [pc |-> "idle", path |-> "", content |-> Absent, sha1 |-> hash_content(Absent),
   index |-> <<>>, commits |-> <<>>, message |-> "", timestamp |-> 0]

Fresh ==
  /\ inflight = [p \in Procs |-> Idle]
  /\ vcs = FALSE
  /\ objects = <<>>
  /\ fs = [p \in FilePaths |-> Absent]
  /\ last = Cmd("none", "")
  /\ staged = <<>>
  /\ made = <<>>
  /\ ncommits = 0
  /\ nadds = 0

Init     == Fresh /\ quota = [adds |-> MaxAdds, commits |-> MaxCommits]
InitDeep == Fresh /\ quota = [adds |-> DeepAdds, commits |-> DeepCommits]
InitSteps == Fresh /\ quota = [adds |-> StepAdds, commits |-> StepCommits]

\* ---- the user edits a working-tree file ----
Write(p, b) ==
  /\ fs[p] # RawFile(b)
  /\ fs' = [fs EXCEPT ![p] = RawFile(b)]
  /\ last' = Cmd("write", "")
  /\ UNCHANGED <<vcs, objects, staged, made, ncommits, nadds, quota, inflight>>

\* ---- commands ----
\* init that creates the repository files whether or not .vcs exists
init_Reset ==
  /\ vcs' = TRUE
  /\ fs' = [fs EXCEPT ![COMMITS_FILE] = dump_commits(<<>>),
                      ![INDEX_FILE] = dump_index(<<>>)]
  /\ last' = Cmd("init", IF vcs THEN "Repository already initialized."
                         ELSE "Initialized empty VCS repository in .vcs/")
  /\ UNCHANGED <<objects, staged, made, ncommits, nadds, quota, inflight>>

init ==
  IF vcs
  THEN /\ last' = Cmd("init", "Repository already initialized.")
       /\ UNCHANGED <<vcs, objects, fs, staged, made, ncommits, nadds, quota, inflight>>
  ELSE /\ vcs' = TRUE
       /\ fs' = [fs EXCEPT ![COMMITS_FILE] = dump_commits(<<>>),
                           ![INDEX_FILE] = dump_index(<<>>)]
       /\ last' = Cmd("init", "Initialized empty VCS repository in .vcs/")
       /\ UNCHANGED <<objects, staged, made, ncommits, nadds, quota, inflight>>

\* an uncaught exception: the command ends with a traceback
Crash(c) ==
  /\ last' = Cmd(c, "Traceback")
  /\ UNCHANGED <<vcs, objects, fs, staged, made, ncommits, nadds, quota, inflight>>

\* history: what the adds of filename since the last successful commit read
Staging(filename, content) ==
  [content |-> content,
   changed |-> /\ filename \in DOMAIN staged
               /\ (staged[filename].changed \/ staged[filename].content # content)]

\* the digest taken over the file name together with the content
add_SaltedDigest(filename) ==
  IF ~exists(filename)
  THEN /\ last' = Cmd("add", "does not exist.")
       /\ UNCHANGED <<vcs, objects, fs, staged, made, ncommits, nadds, quota, inflight>>
  ELSE IF filename = VCS_DIR
  THEN Crash("add")
  ELSE LET content == fs[filename]
           sha1    == hash_content([content EXCEPT !.kind = filename])
           stored  == sha1 \in DOMAIN objects
           index   == load_index
       IN  IF ~stored /\ ~vcs
           THEN Crash("add")
           ELSE /\ nadds < quota.adds
                /\ objects' = IF stored THEN objects ELSE (sha1 :> content) @@ objects
                /\ fs' = save_index(fs, (filename :> sha1) @@ index)
                /\ last' = Cmd("add", "Added")
                /\ staged' = (filename :> Staging(filename, content)) @@ staged
                /\ nadds' = nadds + 1
                /\ UNCHANGED <<vcs, made, ncommits, quota, inflight>>

\* add that opens the object file for writing before it tests for it, so a
\* blob that is already stored is truncated
add_TruncatesStored(filename) ==
  IF ~exists(filename)
  THEN /\ last' = Cmd("add", "does not exist.")
       /\ UNCHANGED <<vcs, objects, fs, staged, made, ncommits, nadds, quota, inflight>>
  ELSE IF filename = VCS_DIR
  THEN Crash("add")
  ELSE LET content == fs[filename]
           sha1    == hash_content(content)
           stored  == sha1 \in DOMAIN objects
           index   == load_index
       IN  IF ~stored /\ ~vcs
           THEN Crash("add")
           ELSE /\ nadds < quota.adds
                /\ objects' = (sha1 :> IF stored THEN RawFile("") ELSE content) @@ objects
                /\ fs' = save_index(fs, (filename :> sha1) @@ index)
                /\ last' = Cmd("add", "Added")
                /\ staged' = (filename :> Staging(filename, content)) @@ staged
                /\ nadds' = nadds + 1
                /\ UNCHANGED <<vcs, made, ncommits, quota, inflight>>

\* add that reports a missing file and then stages it as an empty one
add_StagesMissing(filename) ==
  IF filename = VCS_DIR
  THEN Crash("add")
  ELSE LET content == IF exists(filename) THEN fs[filename] ELSE RawFile("")
           sha1    == hash_content(content)
           stored  == sha1 \in DOMAIN objects
           index   == load_index
       IN  IF ~stored /\ ~vcs
           THEN Crash("add")
           ELSE /\ nadds < quota.adds
                /\ objects' = IF stored THEN objects ELSE (sha1 :> content) @@ objects
                /\ fs' = save_index(fs, (filename :> sha1) @@ index)
                /\ last' = Cmd("add", IF exists(filename) THEN "Added" ELSE "does not exist.")
                /\ staged' = (filename :> Staging(filename, content)) @@ staged
                /\ nadds' = nadds + 1
                /\ UNCHANGED <<vcs, made, ncommits, quota, inflight>>

add(filename) ==
  IF ~exists(filename)
  THEN /\ last' = Cmd("add", "does not exist.")
       /\ UNCHANGED <<vcs, objects, fs, staged, made, ncommits, nadds, quota, inflight>>
  ELSE IF filename = VCS_DIR
  THEN Crash("add")                          \* open() of a directory
  ELSE LET content == fs[filename]
           sha1    == hash_content(content)
           stored  == sha1 \in DOMAIN objects
           index   == load_index
       IN  IF ~stored /\ ~vcs
           THEN Crash("add")                 \* no .vcs/objects to write into
           ELSE /\ nadds < quota.adds
                /\ objects' = IF stored THEN objects ELSE (sha1 :> content) @@ objects
                /\ fs' = save_index(fs, (filename :> sha1) @@ index)
                /\ last' = Cmd("add", "Added")
                /\ staged' = (filename :> Staging(filename, content)) @@ staged
                /\ nadds' = nadds + 1
                /\ UNCHANGED <<vcs, made, ncommits, quota, inflight>>

\* commit without the test for an empty index
commit_Unchecked(message, now) ==
  LET index       == load_index
      commits     == load_commits
      commit_data == [timestamp |-> now, message |-> message, snapshot |-> index]
      appended    == Append(commits, commit_data)
  IN  /\ ncommits < quota.commits
      /\ fs' = save_index([fs EXCEPT ![COMMITS_FILE] = dump_commits(appended)], <<>>)
      /\ last' = Cmd("commit", "Committed changes")
      /\ made' = (Len(commits) :> staged) @@ made
      /\ staged' = <<>>
      /\ ncommits' = ncommits + 1
      /\ UNCHANGED <<vcs, objects, nadds, quota, inflight>>

commit(message, now) ==
  LET index == load_index IN
  IF index = <<>>
  THEN /\ last' = Cmd("commit", "No changes to commit.")
       /\ UNCHANGED <<vcs, objects, fs, staged, made, ncommits, nadds, quota, inflight>>
  ELSE LET commits     == load_commits
           commit_data == [timestamp |-> now, message |-> message, snapshot |-> index]
           appended    == Append(commits, commit_data)
       IN  /\ ncommits < quota.commits
           /\ fs' = save_index([fs EXCEPT ![COMMITS_FILE] = dump_commits(appended)], <<>>)
           /\ last' = Cmd("commit", "Committed changes")
           /\ made' = (Len(commits) :> staged) @@ made
           /\ staged' = <<>>
           /\ ncommits' = ncommits + 1
           /\ UNCHANGED <<vcs, objects, nadds, quota, inflight>>

log ==
  /\ last' = Cmd("log", "Commit #")
  /\ UNCHANGED <<vcs, objects, fs, staged, made, ncommits, nadds, quota, inflight>>

status ==
  /\ last' = Cmd("status", IF load_index = <<>> THEN "No files staged." ELSE "Staged files:")
  /\ UNCHANGED <<vcs, objects, fs, staged, made, ncommits, nadds, quota, inflight>>

\* a clean checkout: working-tree files outside the snapshot are removed
Restored_Clean(snapshot, written) ==
  [p \in FilePaths |-> IF p \in written THEN objects[snapshot[p]]
                       ELSE IF p \in UserPaths THEN Absent ELSE fs[p]]

\* the file system after checkout wrote the blobs of the paths in written
Restored(snapshot, written) ==
  [p \in FilePaths |-> IF p \in written THEN objects[snapshot[p]] ELSE fs[p]]

\* the loop of checkout with a test that skips the paths whose blob is gone
restore_SkipsMissing(snapshot) ==
  LET missing == {p \in DOMAIN snapshot : snapshot[p] \notin DOMAIN objects} IN
  /\ fs' = Restored(snapshot, DOMAIN snapshot \ missing)
  /\ last' = Cmd("checkout", "Checked out")
  /\ made' = IF fs'[COMMITS_FILE] = fs[COMMITS_FILE] THEN made ELSE <<>>
  /\ UNCHANGED <<vcs, objects, staged, ncommits, nadds, quota, inflight>>

\* the loop of checkout over the snapshot, and its closing message
restore(snapshot) ==
  LET missing == {p \in DOMAIN snapshot : snapshot[p] \notin DOMAIN objects} IN
  /\ IF missing = {}
     THEN /\ fs' = Restored(snapshot, DOMAIN snapshot)
          /\ last' = Cmd("checkout", "Checked out")
     ELSE \* open() of a missing blob raises, after the files before it in
          \* the snapshot's order were written
          \E written \in SUBSET (DOMAIN snapshot \ missing) :
            /\ fs' = Restored(snapshot, written)
            /\ last' = Cmd("checkout", "Traceback")
  \* made speaks of the log as the commits wrote it
  /\ made' = IF fs'[COMMITS_FILE] = fs[COMMITS_FILE] THEN made ELSE <<>>
  /\ UNCHANGED <<vcs, objects, staged, ncommits, nadds, quota, inflight>>

\* the range check without its lower bound: a negative number indexes the
\* list from its end
checkout_NegativeIndex(commit_number) ==
  LET commits == load_commits
      i       == IF commit_number < 0 THEN Len(commits) + commit_number + 1
                 ELSE commit_number + 1
  IN  IF commit_number >= Len(commits)
      THEN /\ last' = Cmd("checkout", "Invalid commit number.")
           /\ UNCHANGED <<vcs, objects, fs, staged, made, ncommits, nadds, quota, inflight>>
      ELSE IF i < 1 THEN Crash("checkout")
      ELSE restore(commits[i].snapshot)

checkout(commit_number) ==
  LET commits == load_commits IN
  IF commit_number < 0 \/ commit_number >= Len(commits)
  THEN /\ last' = Cmd("checkout", "Invalid commit number.")
       /\ UNCHANGED <<vcs, objects, fs, staged, made, ncommits, nadds, quota, inflight>>
  ELSE restore(commits[commit_number + 1].snapshot)

\* ---- add and commit step by step, one invocation per process ----
\* add that leaves the blob to be written after the index is saved
add_begin_NoBlob(p, filename) ==
  /\ inflight[p].pc = "idle"
  /\ IF ~exists(filename)
     THEN /\ last' = Cmd("add", "does not exist.")
          /\ UNCHANGED <<vcs, objects, fs, staged, made, ncommits, nadds, quota, inflight>>
     ELSE IF filename = VCS_DIR
     THEN Crash("add")
     ELSE LET content == fs[filename]
              sha1    == hash_content(content)
          IN  IF ~vcs
              THEN Crash("add")
              ELSE /\ nadds < quota.adds
                   /\ inflight' = [inflight EXCEPT ![p] =
                                     [Idle EXCEPT !.pc = "add_load", !.path = filename,
                                                  !.content = content, !.sha1 = sha1]]
                   /\ nadds' = nadds + 1
                   /\ UNCHANGED <<vcs, objects, fs, last, staged, made, ncommits, quota>>

\* add, lines 28-37: the existence test, the read, the digest and the blob
add_begin(p, filename) ==
  /\ inflight[p].pc = "idle"
  /\ IF ~exists(filename)
     THEN /\ last' = Cmd("add", "does not exist.")
          /\ UNCHANGED <<vcs, objects, fs, staged, made, ncommits, nadds, quota, inflight>>
     ELSE IF filename = VCS_DIR
     THEN Crash("add")
     ELSE LET content == fs[filename]
              sha1    == hash_content(content)
              stored  == sha1 \in DOMAIN objects
          IN  IF ~stored /\ ~vcs
              THEN Crash("add")
              ELSE /\ nadds < quota.adds
                   /\ objects' = IF stored THEN objects ELSE (sha1 :> content) @@ objects
                   /\ inflight' = [inflight EXCEPT ![p] =
                                     [Idle EXCEPT !.pc = "add_load", !.path = filename,
                                                  !.content = content, !.sha1 = sha1]]
                   /\ nadds' = nadds + 1
                   /\ UNCHANGED <<vcs, fs, last, staged, made, ncommits, quota>>

\* add, line 38: index = load_index()
add_load(p) ==
  /\ inflight[p].pc = "add_load"
  /\ inflight' = [inflight EXCEPT ![p].pc = "add_save", ![p].index = load_index]
  /\ UNCHANGED <<vcs, objects, fs, last, staged, made, ncommits, nadds, quota>>

\* add that holds the index file from its load to its save, so that the
\* index it saves is the one on disk plus its own entry
add_save_Exclusive(p) ==
  LET my == inflight[p] IN
  /\ my.pc = "add_save"
  /\ fs' = save_index(fs, (my.path :> my.sha1) @@ load_index)
  /\ last' = Cmd("add", "Added")
  /\ staged' = (my.path :> Staging(my.path, my.content)) @@ staged
  /\ inflight' = [inflight EXCEPT ![p] = Idle]
  /\ UNCHANGED <<vcs, objects, made, ncommits, nadds, quota>>

\* add, lines 39-41: the entry is set in the index loaded at line 38, and
\* that index is saved
add_save(p) ==
  LET my == inflight[p] IN
  /\ my.pc = "add_save"
  /\ fs' = save_index(fs, (my.path :> my.sha1) @@ my.index)
  /\ last' = Cmd("add", "Added")
  /\ staged' = (my.path :> Staging(my.path, my.content)) @@ staged
  /\ inflight' = [inflight EXCEPT ![p] = Idle]
  /\ UNCHANGED <<vcs, objects, made, ncommits, nadds, quota>>

\* commit, lines 44-47: index = load_index() and the test for an empty index
commit_begin(p, message, now) ==
  LET index == load_index IN
  /\ inflight[p].pc = "idle"
  /\ IF index = <<>>
     THEN /\ last' = Cmd("commit", "No changes to commit.")
          /\ UNCHANGED <<vcs, objects, fs, staged, made, ncommits, nadds, quota, inflight>>
     ELSE /\ ncommits < quota.commits
          /\ inflight' = [inflight EXCEPT ![p] =
                            [Idle EXCEPT !.pc = "commit_load", !.index = index,
                                         !.message = message, !.timestamp = now]]
          /\ ncommits' = ncommits + 1
          /\ UNCHANGED <<vcs, objects, fs, last, staged, made, nadds, quota>>

\* commit, line 48: commits = load_commits()
commit_load(p) ==
  /\ inflight[p].pc = "commit_load"
  /\ inflight' = [inflight EXCEPT ![p].pc = "commit_write", ![p].commits = load_commits]
  /\ UNCHANGED <<vcs, objects, fs, last, staged, made, ncommits, nadds, quota>>

\* commit, lines 49-56: the record is appended to the list loaded at line 48
\* and the list is written to the commits file
commit_write(p) ==
  LET my          == inflight[p]
      commit_data == [timestamp |-> my.timestamp, message |-> my.message,
                      snapshot |-> my.index]
  IN  /\ my.pc = "commit_write"
      /\ fs' = [fs EXCEPT ![COMMITS_FILE] = dump_commits(Append(my.commits, commit_data))]
      /\ made' = (Len(my.commits) :> staged) @@ made
      /\ inflight' = [inflight EXCEPT ![p].pc = "commit_clear"]
      /\ UNCHANGED <<vcs, objects, last, staged, ncommits, nadds, quota>>

\* commit, lines 57-58: save_index({}) and the message
commit_clear(p) ==
  /\ inflight[p].pc = "commit_clear"
  /\ fs' = save_index(fs, <<>>)
  /\ last' = Cmd("commit", "Committed changes")
  /\ staged' = <<>>
  /\ inflight' = [inflight EXCEPT ![p] = Idle]
  /\ UNCHANGED <<vcs, objects, made, ncommits, nadds, quota>>

\* the invocation is interrupted (a signal, or a write that raises) between
\* two of its steps: nothing it did is undone
Kill(p) ==
  /\ inflight[p].pc # "idle"
  /\ last' = Cmd(IF inflight[p].pc \in {"add_load", "add_save"} THEN "add" ELSE "commit",
                 "Killed")
  /\ inflight' = [inflight EXCEPT ![p] = Idle]
  /\ UNCHANGED <<vcs, objects, fs, staged, made, ncommits, nadds, quota>>

\* ---- damage from outside: a blob file of a committed digest is removed ----
Referenced ==
  {load_index[p] : p \in DOMAIN load_index}
    \cup UNION {{load_commits[i].snapshot[p] : p \in DOMAIN load_commits[i].snapshot} :
                  i \in 1 .. Len(load_commits)}

Corrupt(d) ==
  /\ Referenced \subseteq DOMAIN objects
  /\ d \in Referenced
  /\ objects' = [e \in DOMAIN objects \ {d} |-> objects[e]]
  /\ last' = Cmd("corrupt", "")
  /\ UNCHANGED <<vcs, fs, staged, made, ncommits, nadds, quota, inflight>>

\* ---- what the claims speak of ----
IsPrefix(s, t) == Len(s) <= Len(t) /\ \A i \in 1 .. Len(s) : s[i] = t[i]

Committed  == last.cmd = "commit" /\ last.out = "Committed changes"
CheckedOut == last.cmd = "checkout" /\ last.out = "Checked out"
Added      == last.cmd = "add" /\ last.out = "Added"

\* C1: round-trip fidelity.  If add(p) ran while the working-tree file p
\* held C and the following commit produced record k, every later successful
\* checkout(k) leaves p holding exactly C.
C1_RoundTrip ==
  [][\A k \in DOMAIN made :
       (CheckedOut' /\ checkout(k)) =>
          \A p \in DOMAIN made[k] \cap UserPaths : fs'[p] = made[k][p].content]_vars

\* C2: the commit log is append-only and its records immutable: every step
\* of every command leaves the old log a prefix of the new one.
C2_AppendOnly == [][IsPrefix(load_commits, load_commits')]_vars

\* C3: commit numbering.  The Nth successful commit grows the log by one
\* record, at position N-1, and leaves the log with exactly N records.
C3_Numbering ==
  [][\A message \in Messages, now \in Times :
       (Committed' /\ commit(message, now)) =>
          /\ Len(load_commits') = Len(load_commits) + 1
          /\ Len(load_commits') = ncommits'
          /\ load_commits'[ncommits'].snapshot = load_index]_vars

\* C4: commit clears staging.  Right after a successful commit the persisted
\* index is empty, and it stays empty (status prints "No files staged.")
\* until the next successful add.
C4_CommitClears ==
  [][/\ Committed' => load_index' = <<>>
     /\ (load_index = <<>> /\ ~Added') => load_index' = <<>>
     /\ (last'.cmd = "status" /\ load_index = <<>> /\ status) => last'.out = "No files staged."]_vars

\* C7: staging overwrite.  A working-tree path added several times with
\* different content before a commit has one index entry, and the snapshot of
\* the next commit maps it to the digest of the content of its last add.
C7_StagingOverwrite ==
  [][\A message \in Messages, now \in Times :
       (last'.cmd = "commit" /\ commit(message, now)) =>
          \A p \in DOMAIN staged \cap UserPaths :
             staged[p].changed =>
                /\ Committed'
                /\ p \in DOMAIN load_commits'[Len(load_commits')].snapshot
                /\ load_commits'[Len(load_commits')].snapshot[p]
                      = hash_content(staged[p].content)]_vars

\* C9: checkout frame.  In every state and for every commit number, checkout
\* leaves the staging index, the commit log and the object store unchanged.
C9_CheckoutFrame ==
  [][\A n \in CommitNumbers :
       (last'.cmd = "checkout" /\ checkout(n)) =>
                      /\ load_index' = load_index
                      /\ load_commits' = load_commits
                      /\ objects' = objects]_vars

\* C5: empty-commit rejection.  commit with an empty staging index prints
\* "No changes to commit.", does not fail, and leaves the commit log, the
\* index, the object store and the working tree unchanged.
C5_EmptyCommit ==
  [][\A message \in Messages, now \in Times :
       (last'.cmd = "commit" /\ load_index = <<>> /\ commit(message, now)) =>
          /\ last'.out = "No changes to commit."
          /\ UNCHANGED <<vcs, objects, fs>>]_vars

C5_Witness ==
  /\ last = Cmd("commit", "No changes to commit.")
  /\ load_commits # <<>>
  /\ \E p \in UserPaths : fs[p] # Absent

\* C6: invalid checkout.  checkout(n) with n < 0 or n >= length of the log
\* prints "Invalid commit number." and changes no file, nor the index, the
\* commit log or the object store.
C6_InvalidCheckout ==
  [][\A n \in CommitNumbers :
       (last'.cmd = "checkout" /\ (n < 0 \/ n >= Len(load_commits)) /\ checkout(n)) =>
          /\ last'.out = "Invalid commit number."
          /\ UNCHANGED <<vcs, objects, fs>>]_vars

C6_Witness ==
  /\ last = Cmd("checkout", "Invalid commit number.")
  /\ load_commits # <<>>
  /\ \E p \in UserPaths : fs[p] # Absent

\* C8: idempotent content addressing.  After a successful add of a file
\* holding content c the store holds exactly one blob with content c, the
\* index maps the file to the digest of that blob, and when a blob with
\* content c was there before, the add leaves the object store unchanged.
C8_Idempotent ==
  [][\A f \in FilePaths :
       (Added' /\ add(f)) =>
          LET same == {d \in DOMAIN objects' : objects'[d] = fs[f]} IN
          /\ Cardinality(same) = 1
          /\ load_index'[f] \in same
          /\ (\E d \in DOMAIN objects : objects[d] = fs[f]) => objects' = objects]_vars

C8_Witness ==
  /\ Added
  /\ Cardinality(DOMAIN objects) = 1
  /\ \E p, q \in UserPaths :
       /\ p # q /\ {p, q} \subseteq DOMAIN load_index
       /\ fs[p] = fs[q]
       /\ load_index[p] = load_index[q]

\* C10: checkout is additive only.  A checkout of a commit number in range
\* changes only files whose paths are keys of that commit's snapshot; every
\* other file keeps its content, and no file is deleted.
C10_Additive ==
  [][\A n \in CommitNumbers :
       (last'.cmd = "checkout" /\ n >= 0 /\ n < Len(load_commits) /\ checkout(n)) =>
          /\ \A p \in FilePaths \ DOMAIN load_commits[n + 1].snapshot : fs'[p] = fs[p]
          /\ \A p \in FilePaths : fs[p] # Absent => fs'[p] # Absent]_vars

C10_Witness ==
  /\ CheckedOut
  /\ load_commits # <<>>
  /\ \E p \in UserPaths :
       /\ fs[p] # Absent
       /\ \A i \in 1 .. Len(load_commits) : p \notin DOMAIN load_commits[i].snapshot

\* C11: add of a path that does not exist prints "... does not exist." and
\* changes nothing: object store, index, commit log and working tree are as
\* before, so what follows runs as if the add had not been made.
C11_MissingAdd ==
  [][\A f \in ArgPaths :
       (last'.cmd = "add" /\ ~exists(f) /\ add(f)) =>
          /\ last'.out = "does not exist."
          /\ UNCHANGED <<vcs, objects, fs, staged, made, ncommits, nadds>>]_vars

C11_Witness ==
  /\ last = Cmd("add", "does not exist.")
  /\ load_index # <<>>
  /\ \E p \in UserPaths : fs[p] = Absent

\* C12: re-init is a no-op.  init with .vcs present prints "Repository
\* already initialized." and leaves index, log and object store as they
\* were; init without .vcs yields an empty index, log and object store.
C12_ReInit ==
  [][(last'.cmd = "init" /\ init) =>
       IF vcs
       THEN /\ last'.out = "Repository already initialized."
            /\ UNCHANGED <<vcs, objects, fs>>
       ELSE /\ vcs'
            /\ fs'[INDEX_FILE] = dump_index(<<>>)
            /\ fs'[COMMITS_FILE] = dump_commits(<<>>)
            /\ objects' = <<>>]_vars

C12_Witness ==
  /\ last = Cmd("init", "Repository already initialized.")
  /\ load_index # <<>>
  /\ load_commits # <<>>
  /\ objects # <<>>

\* C13: repository-root precondition.  While .vcs is absent, add, commit,
\* checkout, log and status stop at the check for it: they end without an
\* uncaught error and leave all state unchanged, .vcs still absent.
C13_RootPrecondition ==
  [][(~vcs /\ last'.cmd \in {"add", "commit", "checkout", "log", "status"}) =>
       /\ last'.out # "Traceback"
       /\ UNCHANGED <<vcs, objects, fs>>]_vars

\* C16: the snapshot of the record appended by a successful commit equals
\* the index as it was just before the commit: it holds exactly the paths
\* added successfully since the previous successful commit, each with the
\* digest of the content it had at its add.
C16_Snapshot ==
  [][\A message \in Messages, now \in Times :
       (Committed' /\ commit(message, now)) =>
          LET snapshot == load_commits'[Len(load_commits')].snapshot IN
          /\ snapshot = load_index
          /\ DOMAIN snapshot = DOMAIN staged
          /\ \A p \in DOMAIN staged : snapshot[p] = hash_content(staged[p].content)]_vars

\* C17: the object store is write-once and only grows: no step removes a
\* blob or changes the content under a stored digest, and every stored
\* blob's content hashes to the digest it is stored under.
C17_WriteOnce ==
  /\ [](\A d \in DOMAIN objects : hash_content(objects[d]) = d)
  /\ [][\A d \in DOMAIN objects :
          d \in DOMAIN objects' /\ objects'[d] = objects[d]]_vars

C17_Witness ==
  /\ CheckedOut
  /\ Cardinality(DOMAIN objects) >= 2

\* C18: Staged/Clean transitions.  The index changes only by a successful
\* add, which leaves it non-empty, and by a successful commit, which leaves
\* it empty; no other command changes it.
C18_IndexTransitions ==
  [][load_index' # load_index =>
       \/ Added' /\ load_index' # <<>>
       \/ Committed' /\ load_index' = <<>>]_vars

\* C14: referential integrity.  In every reachable state, the states of an
\* add between its blob write and its index save included, every digest in
\* the staging index or in a commit snapshot has a blob in the object store,
\* and no checkout has failed on a missing blob.
C14_Integrity ==
  /\ Referenced \subseteq DOMAIN objects
  /\ last # Cmd("checkout", "Traceback")

C14_Witness ==
  /\ CheckedOut
  /\ \E p \in Procs :
       /\ inflight[p].pc \in {"add_load", "add_save"}
       /\ inflight[p].sha1 \in DOMAIN objects
       /\ inflight[p].sha1 \notin Referenced

\* C15: commit is atomic over the log and the index: whenever a step makes
\* the commit log longer, the persisted index is empty after that same step.
C15_Atomic ==
  [][Len(load_commits') > Len(load_commits) => load_index' = <<>>]_vars

C20_FailsLoudly ==
  [][\A n \in CommitNumbers :
       (last'.cmd = "checkout" /\ n >= 0 /\ n < Len(load_commits) /\ checkout(n)) =>
          LET snapshot == load_commits[n + 1].snapshot
              missing  == {p \in DOMAIN snapshot : snapshot[p] \notin DOMAIN objects}
          IN  missing # {} =>
                /\ last'.out = "Traceback"
                /\ \A p \in missing : fs'[p] = fs[p]]_vars

C20_Witness ==
  /\ last = Cmd("checkout", "Traceback")
  /\ \E i \in 1 .. Len(load_commits) :
       \E p \in DOMAIN load_commits[i].snapshot :
          load_commits[i].snapshot[p] \notin DOMAIN objects

Next ==
  \/ \E p \in UserPaths, b \in Bytes : Write(p, b)
  \/ init
  \/ \E filename \in ArgPaths : add(filename)
  \/ \E message \in Messages, now \in Times : commit(message, now)
  \/ log
  \/ status
  \/ \E commit_number \in CommitNumbers : checkout(commit_number)

NextCorrupt ==
  \/ Next
  \/ \E d \in DOMAIN objects : Corrupt(d)

\* two invocations of add step by step, among whole commands
NextAddSteps ==
  \/ \E p \in UserPaths, b \in Bytes : Write(p, b)
  \/ init
  \/ \E p \in Procs, filename \in StepPaths : add_begin(p, filename)
  \/ \E p \in Procs : add_load(p)
  \/ \E p \in Procs : add_save(p)
  \/ \E p \in Procs : Kill(p)
  \/ \E message \in Messages, now \in Times : commit(message, now)
  \/ \E commit_number \in CommitNumbers : checkout(commit_number)

\* two invocations of add or commit step by step
NextSteps ==
  \/ \E p \in UserPaths, b \in Bytes : Write(p, b)
  \/ init
  \/ \E p \in Procs, filename \in StepPaths : add_begin(p, filename)
  \/ \E p \in Procs : add_load(p)
  \/ \E p \in Procs : add_save(p)
  \/ \E p \in Procs, message \in Messages, now \in Times : commit_begin(p, message, now)
  \/ \E p \in Procs : commit_load(p)
  \/ \E p \in Procs : commit_write(p)
  \/ \E p \in Procs : commit_clear(p)
  \/ \E p \in Procs : Kill(p)
  \/ \E commit_number \in CommitNumbers : checkout(commit_number)

Spec        == Init /\ [][Next]_vars
SpecDeep    == InitDeep /\ [][Next]_vars
SpecCorrupt == Init /\ [][NextCorrupt]_vars
SpecAddSteps == InitSteps /\ [][NextAddSteps]_vars
SpecSteps    == InitSteps /\ [][NextSteps]_vars

====
